---------------------------- MODULE Spec2Model ----------------------------
(***************************************************************************)
(* CMRX kernel core: the binary lock and the recursive lock of             *)
(* src/lib/mutex.c and the cross-process call engine of                    *)
(* src/os/arch/arm/rpc.c, modelled as state machines.                      *)
(*                                                                         *)
(* Locks: every memory access of mutex_lock, mutex_trylock, mutex_unlock,  *)
(* futex_lock, futex_trylock and futex_unlock is one step, so a thread can *)
(* be preempted between any two accesses.  The exclusive monitor is the    *)
(* single local monitor of the one CPU: LDREXB gives the reservation to    *)
(* the executing thread, STREXB and CLREX drop it, and a context switch    *)
(* (a step of another thread) drops it as well.  STREXB may also fail      *)
(* although the reservation is still held.                                 *)
(***************************************************************************)
EXTENDS Integers, Naturals, Sequences, FiniteSets, TLC

\* ------------------------------------------------------------------ bounds
NumThreads == 2

\* --------------------------------------------------------------- constants
\* The owner of a lock nobody owns, 0xFF.  The error codes are declared in
\* cmrx/defines.h; the model uses only that they differ and are not 0.
UNOWNED == 255
E_OK == 0
E_DEADLK == 7
E_BUSY == 11

Threads == 0 .. (NumThreads - 1)
NoThread == UNOWNED
NoRet == 0 - 1

VARIABLES
    mstate,     \* mutex->state
    mowner,     \* mutex->owner
    pc,         \* pc[t]: the statement thread t executes next
    tmp,        \* tmp[t]: the local tmp_state of thread t
    mon,        \* the thread holding the exclusive reservation, or NoThread
    op,         \* op[t]: the lock operation t is in, or completed last
    entry,      \* entry[t]: <<state, owner>> of the lock when op[t] was called
    ret,        \* ret[t]: what op[t] returned (NoRet while it runs)
    wrote,      \* wrote[t]: op[t] has stored to the lock object
    holds,      \* holds[t]: t is between a 0 return of lock/trylock and its next unlock
    fstate,     \* futex->state, the depth
    fowner,     \* futex->owner
    rState,     \* rState[t]: the register mutexState of thread t
    rOwner,     \* rOwner[t]: the register mutexOwner of thread t
    claims      \* claims[t]: 0 returns of futex_lock/futex_trylock of t, less those
                \* of its futex_unlock

VARIABLES
    home,       \* the process owning the thread: os_get_current_process()
    rpc_stack,  \* the thread's call stack of process ids, bottom first
    mpu,        \* the active hardware mapping, one descriptor per MPU region
    stk,        \* the thread's stack, word by word
    sp,         \* the thread's stack pointer while it runs in thread mode
    run,        \* the program counter loaded by the last exception return
    r0,         \* register R0 as loaded by the last exception return
    saved,      \* the mappings that were active before the calls still open
    frames,     \* the callers' records of the calls still open: <<address, words>>
    last        \* the last trap: <<operation, service called or result passed,
                \* value returned by the handler>>

VARIABLES
    os_processes,   \* the process table: definition and region descriptors
    created,        \* the last os_process_create: <<process_id, definition, value
                    \* returned, an earlier create of the id had failed>>
    thread_stack,   \* the stack os_stack_get(stack_id) returns, word by word
    thread_sp,      \* thread->sp of the thread created on that stack
    cpu,            \* PSP, CONTROL and the registers the exception return loads
    boot,           \* how far the thread has come, and what it was created with
    current_thread, \* the thread the CPU executes
    priority,       \* priority[t], 0 is the highest
    ready           \* ready[t]: t is ready or running

threadVars == <<pc, mon, op, entry, ret, wrote>>
mutexOnly == <<mstate, mowner, tmp, holds>>
futexOnly == <<fstate, fowner, rState, rOwner, claims>>
lockVars == <<threadVars, mutexOnly, futexOnly>>
rpcVars == <<home, rpc_stack, mpu, stk, sp, run, r0, saved, frames, last>>
procVars == <<os_processes, created>>
bootVars == <<thread_stack, thread_sp, cpu, boot>>
schedVars == <<current_thread, priority, ready>>
kernVars == <<procVars, bootVars, schedVars>>
vars == <<lockVars, rpcVars, kernVars>>

\* ------------------------------------------------------ exclusive monitor

\* The reservation as thread t finds it when it gets the CPU: a switch to t from
\* any other thread went through an exception return, which clears the monitor.
Keep(t) == IF mon = t THEN t ELSE NoThread

StrexAnyway(t) == {TRUE, FALSE}

\* __STREXB by thread t: the results the store can have.  It stores only while t
\* still holds the reservation, and even then it may fail.
StrexOutcomes(t) == IF mon = t THEN {TRUE, FALSE} ELSE {FALSE}

\* -------------------------------------------------------------- scheduler
\* The ready threads other than t that sched_yield of t, or the end of t's time
\* slice, can give the CPU to: those of equal or higher priority.
YieldCandidates(t) ==
    {u \in Threads \ {t} : ready[u] /\ priority[u] <= priority[t]}

\* The thread that runs after t has given up the CPU: the best of the
\* candidates, any of them among equals, or t again when there is none.  While
\* current_thread is NoThread the schedule is left open: threads interleave in
\* every possible way.
NextThreads(t) ==
    IF current_thread = NoThread THEN {NoThread}
    ELSE IF YieldCandidates(t) = {} THEN {t}
    ELSE {u \in YieldCandidates(t) :
            \A v \in YieldCandidates(t) : priority[u] <= priority[v]}

\* sched_yield(), called by thread t.
sched_yield(t) ==
    /\ current_thread' \in NextThreads(t)
    /\ UNCHANGED <<priority, ready>>

\* ------------------------------------------------------------- mutex_init
MutexInit ==
    /\ mstate = 0
    /\ mowner = UNOWNED
    /\ pc = [t \in Threads |-> "idle"]
    /\ tmp = [t \in Threads |-> 0]
    /\ mon = NoThread
    /\ op = [t \in Threads |-> "none"]
    /\ entry = [t \in Threads |-> <<0, UNOWNED>>]
    /\ ret = [t \in Threads |-> NoRet]
    /\ wrote = [t \in Threads |-> FALSE]
    /\ holds = [t \in Threads |-> FALSE]

\* ------------------------------------------------------------- futex_init
FutexInit ==
    /\ fstate = 0
    /\ fowner = UNOWNED
    /\ rState = [t \in Threads |-> 0]
    /\ rOwner = [t \in Threads |-> 0]
    /\ claims = [t \in Threads |-> 0]

\* A thread calls one of the three operations.  Calling mutex_unlock ends the
\* section in which the thread counts as holder.
MutexCall(t, o, first) ==
    /\ pc[t] = "idle"
    /\ pc' = [pc EXCEPT ![t] = first]
    /\ op' = [op EXCEPT ![t] = o]
    /\ entry' = [entry EXCEPT ![t] = <<mstate, mowner>>]
    /\ ret' = [ret EXCEPT ![t] = NoRet]
    /\ wrote' = [wrote EXCEPT ![t] = FALSE]
    /\ holds' = [holds EXCEPT ![t] = IF o = "unlock" THEN FALSE ELSE @]
    /\ mon' = Keep(t)
    /\ UNCHANGED <<mstate, mowner, tmp>>
    /\ UNCHANGED <<futexOnly, rpcVars, kernVars>>

\* The operation of t returns r.
Return(t, r) ==
    /\ pc' = [pc EXCEPT ![t] = "idle"]
    /\ ret' = [ret EXCEPT ![t] = r]
    /\ holds' = [holds EXCEPT ![t] = IF r = 0 /\ op[t] \in {"lock", "trylock"} THEN TRUE ELSE @]
    /\ tmp' = [tmp EXCEPT ![t] = 0]
    /\ UNCHANGED <<op, entry>>
    /\ UNCHANGED <<futexOnly, rpcVars, kernVars>>

Goto(t, l) ==
    /\ pc' = [pc EXCEPT ![t] = l]
    /\ UNCHANGED <<ret, holds, op, entry>>
    /\ UNCHANGED <<futexOnly, rpcVars, procVars, bootVars>>

\* A step that touches neither the lock object nor tmp_state.
Local(t, l) ==
    /\ Goto(t, l)
    /\ UNCHANGED <<mstate, mowner, tmp, wrote>>
    /\ UNCHANGED schedVars

\* Return without a store.
ReturnOnly(t, r) ==
    /\ Return(t, r)
    /\ UNCHANGED <<mstate, mowner, wrote>>

\* tmp_state = __LDREXB(&mutex->state)
Ldrex(t, next) ==
    /\ tmp' = [tmp EXCEPT ![t] = mstate]
    /\ mon' = t
    /\ Goto(t, next)
    /\ UNCHANGED <<mstate, mowner, wrote>>
    /\ UNCHANGED schedVars

\* success = __STREXB(&mutex->state, v)
Strex(t, v, onOk, onFail) ==
    \E ok \in StrexOutcomes(t) :
        /\ mon' = NoThread
        /\ mstate' = IF ok THEN v ELSE mstate
        /\ wrote' = [wrote EXCEPT ![t] = @ \/ ok]
        /\ Goto(t, IF ok THEN onOk ELSE onFail)
        /\ UNCHANGED <<mowner, tmp>>
        /\ UNCHANGED schedVars

\* mutex->owner = v; return 0
SetOwnerReturn(t, v) ==
    /\ mowner' = v
    /\ wrote' = [wrote EXCEPT ![t] = TRUE]
    /\ mon' = Keep(t)
    /\ Return(t, 0)
    /\ UNCHANGED mstate

\* ------------------------------------------------------------- mutex_lock
\* The second half of the test of line 127, `mutex->owner != 0xFF`, negated.
LockOwnerUnowned(t) == mowner = UNOWNED

mutex_lock(t) ==
    \/ MutexCall(t, "lock", "lock_ldrex")
    \/ /\ pc[t] = "lock_ldrex"
       /\ Ldrex(t, "lock_owner1")
    \/ /\ pc[t] = "lock_owner1"
       /\ Local(t, IF mowner # t THEN "lock_owner2"
                   ELSE IF tmp[t] = 0 THEN "lock_strex" ELSE "lock_ldrex")
       /\ mon' = Keep(t)
    \/ /\ pc[t] = "lock_owner2"
       /\ Local(t, IF ~LockOwnerUnowned(t) THEN "lock_yield"
                   ELSE IF tmp[t] = 0 THEN "lock_strex" ELSE "lock_ldrex")
       /\ mon' = Keep(t)
    \/ /\ pc[t] = "lock_strex"
       /\ Strex(t, 1, "lock_setowner", "lock_yield")
    \/ /\ pc[t] = "lock_setowner"
       /\ SetOwnerReturn(t, t)
    \/ /\ pc[t] = "lock_yield"
       /\ mon' = NoThread
       /\ Goto(t, "lock_ldrex")
       /\ sched_yield(t)
       /\ UNCHANGED <<mstate, mowner, tmp, wrote>>

\* ---------------------------------------------------------- mutex_trylock
\* The test of line 156, `mutex->owner != thread_id`.
TryOwnerMismatch(t) == mowner # t

mutex_trylock(t) ==
    CASE pc[t] = "idle" -> MutexCall(t, "trylock", "try_ldrex")
      [] pc[t] = "try_ldrex" -> Ldrex(t, "try_owner")
      [] pc[t] = "try_owner" ->
            IF TryOwnerMismatch(t)
            THEN mon' = NoThread /\ ReturnOnly(t, E_BUSY)
            ELSE IF tmp[t] = 0
                 THEN mon' = Keep(t) /\ Local(t, "try_strex")
                 ELSE mon' = NoThread /\ ReturnOnly(t, E_DEADLK)
      [] pc[t] = "try_strex" -> Strex(t, 1, "try_setowner", "try_deadlk")
      [] pc[t] = "try_setowner" -> SetOwnerReturn(t, t)
      [] pc[t] = "try_deadlk" ->
            /\ ReturnOnly(t, E_DEADLK)
            /\ mon' = Keep(t)
      [] OTHER -> FALSE

\* ----------------------------------------------------------- mutex_unlock
UnlockNoRetry == "unl_setowner"

\* Lines 196-200, `do { ... } while (success != 0)`: where a failed exclusive
\* store of the clear goes on.
UnlockRetry == "unl_ldrex2"

UnlockOwnerIgnored(t) == FALSE

\* The test of line 182, `mutex->owner != thread_id`.
UnlockOwnerMismatch(t) == mowner # t

mutex_unlock(t) ==
    \/ MutexCall(t, "unlock", "unl_ldrex")
    \/ /\ pc[t] = "unl_ldrex"
       /\ Ldrex(t, "unl_owner")
    \/ /\ pc[t] = "unl_owner"
       /\ IF UnlockOwnerMismatch(t)
          THEN mon' = NoThread /\ ReturnOnly(t, E_BUSY)
          ELSE IF tmp[t] = 0
               THEN mon' = NoThread /\ ReturnOnly(t, 0)
               ELSE mon' = Keep(t) /\ Local(t, "unl_ldrex2")
    \/ /\ pc[t] = "unl_ldrex2"
       /\ Ldrex(t, "unl_strex")
    \/ /\ pc[t] = "unl_strex"
       /\ Strex(t, 0, "unl_setowner", UnlockRetry)
    \/ /\ pc[t] = "unl_setowner"
       /\ SetOwnerReturn(t, UNOWNED)

MutexNext == \E t \in Threads : mutex_lock(t) \/ mutex_trylock(t) \/ mutex_unlock(t)


\* ------------------------------------------------- binary lock: properties

\* No other thread has called any lock operation so far.
Alone(t) == \A u \in Threads \ {t} : op[u] = "none"

\* t has completed a call of operation o.
Completed(t, o) == pc[t] = "idle" /\ op[t] = o /\ ret[t] # NoRet

\* C1: binary lock mutual exclusion.  At most one thread at a time is between a
\* 0 return of mutex_lock/mutex_trylock and the start of its next mutex_unlock,
\* and while a thread is there the mutex has state 1 with that thread as owner.
C1_MutexMutualExclusion ==
    \A t \in Threads :
        holds[t] =>
            /\ mstate = 1
            /\ mowner = t
            /\ \A u \in Threads : holds[u] => u = t

\* C1 witness: one thread holds the mutex while another one, inside mutex_lock,
\* has found it taken and is about to yield.
C1_Witness ==
    \E t \in Threads : \E u \in Threads \ {t} :
        holds[t] /\ op[u] = "lock" /\ pc[u] = "lock_yield"

\* C8 (as claimed): a completed mutex_trylock of t, alone on a mutex that had
\* state 0 and owner 0xFF or t, never returns E_BUSY, and unless the claim raced
\* (E_DEADLK) it returns 0 with state = 1 and owner = t.
C8_TrylockClaimsFreeMutex ==
    \A t \in Threads :
        (Completed(t, "trylock") /\ Alone(t)
            /\ entry[t][1] = 0 /\ entry[t][2] \in {UNOWNED, t}) =>
                /\ ret[t] # E_BUSY
                /\ ret[t] # E_DEADLK => (ret[t] = 0 /\ mstate = 1 /\ mowner = t)

\* C9 (as claimed): a completed mutex_unlock of t, alone on a mutex that was
\* unlocked (state 0, owner 0xFF), returns 0 and has stored nothing.
C9_UnlockOfUnlockedSucceeds ==
    \A t \in Threads :
        (Completed(t, "unlock") /\ Alone(t) /\ entry[t] = <<0, UNOWNED>>) =>
            (ret[t] = 0 /\ ~wrote[t] /\ mstate = 0 /\ mowner = UNOWNED)

\* C10: non-owner unlock is rejected.  A mutex_unlock of t called on a locked
\* mutex (state 1) whose recorded owner is not t never stores to the mutex, and
\* it returns E_BUSY; a thread that holds the mutex keeps holding it.
C10_NonOwnerUnlockRejected ==
    \A t \in Threads :
        (op[t] = "unlock" /\ entry[t][1] = 1 /\ entry[t][2] # t) =>
            /\ ~wrote[t]
            /\ pc[t] = "idle" => ret[t] = E_BUSY
            /\ \A u \in Threads : (entry[t][2] = u /\ holds[u]) => (mstate = 1 /\ mowner = u)

\* C10 witness: t has been refused while u holds the mutex.
C10_Witness ==
    \E t \in Threads : \E u \in Threads \ {t} :
        /\ Completed(t, "unlock") /\ entry[t] = <<1, u>> /\ ret[t] = E_BUSY
        /\ holds[u] /\ mstate = 1 /\ mowner = u

\* C11 (as claimed): mutex_lock yields on every failed attempt.  A thread inside
\* mutex_lock gets back to the exclusive load of line 126 only through the
\* sched_yield of line 129 or of line 143 (or by calling mutex_lock).
C11_LockYieldsOnFailure ==
    [][\A t \in Threads :
        (pc'[t] = "lock_ldrex" /\ pc[t] # "lock_ldrex") =>
            pc[t] \in {"idle", "lock_yield"}
      ]_vars

\* A step of a mutex_unlock that t has called, and the step in which its
\* exclusive store of the clear succeeds.
UnlockStep(t) == pc[t] # "idle" /\ mutex_unlock(t)
UnlockStoreSucceeds(t) == pc[t] = "unl_strex" /\ mutex_unlock(t) /\ pc'[t] = "unl_setowner"

\* t is inside a mutex_unlock it called as recorded owner of the locked mutex.
OwnerUnlocking(t) == op[t] = "unlock" /\ pc[t] # "idle" /\ entry[t] = <<1, t>>

FUTEX_LOCK_MAX_DEPTH == 0

FutexCall(t, o, first) ==
    /\ pc[t] = "idle"
    /\ pc' = [pc EXCEPT ![t] = first]
    /\ op' = [op EXCEPT ![t] = o]
    /\ ret' = [ret EXCEPT ![t] = NoRet]
    /\ mon' = Keep(t)
    /\ UNCHANGED <<entry, wrote>>
    /\ UNCHANGED futexOnly
    /\ UNCHANGED <<mutexOnly, rpcVars, kernVars>>

\* The operation of t returns r; the registers of the inline assembly are dead.
FReturn(t, r) ==
    /\ pc' = [pc EXCEPT ![t] = "idle"]
    /\ ret' = [ret EXCEPT ![t] = r]
    /\ rState' = [rState EXCEPT ![t] = 0]
    /\ rOwner' = [rOwner EXCEPT ![t] = 0]
    /\ claims' = [claims EXCEPT ![t] =
                    IF r # 0 THEN @
                    ELSE IF op[t] = "funlock" THEN (IF @ > 0 THEN @ - 1 ELSE 0)
                    ELSE @ + 1]
    /\ UNCHANGED <<op, entry, wrote>>
    /\ UNCHANGED <<mutexOnly, rpcVars, kernVars>>

FGoto(t, l) ==
    /\ pc' = [pc EXCEPT ![t] = l]
    /\ UNCHANGED <<ret, op, entry, wrote, claims>>
    /\ UNCHANGED <<mutexOnly, rpcVars, procVars, bootVars>>

\* A step that leaves the registers as they are.
FStep(t, l) ==
    /\ FGoto(t, l)
    /\ UNCHANGED <<rState, rOwner>>
    /\ UNCHANGED schedVars

\* LDREXB %[mutexState], [%[mutexStateAddr]]
FLdrex(t, next) ==
    /\ rState' = [rState EXCEPT ![t] = fstate]
    /\ mon' = t
    /\ FGoto(t, next)
    /\ UNCHANGED <<fstate, fowner, rOwner>>
    /\ UNCHANGED schedVars

\* STREXB %[mutexSuccess], %[mutexState], [%[mutexStateAddr]], then CLREX: the
\* byte v is stored if the exclusive store succeeds; onOk or onFail is how the
\* thread goes on.
FStrex(t, v, onOk, onFail) ==
    \E ok \in StrexOutcomes(t) :
        /\ mon' = NoThread
        /\ fstate' = IF ok THEN v % 256 ELSE fstate
        /\ IF ok THEN onOk ELSE onFail
        /\ UNCHANGED fowner

FastLockableOffByOne(state, owner, t, max_depth) ==
    /\ owner = UNOWNED \/ owner = t
    /\ ~(state > max_depth + 1)

FastLockableAnyDepth(state, owner, t, max_depth) ==
    owner = UNOWNED \/ owner = t

\* __futex_fast_lock, lines 29-39: the futex can be claimed by t when it is not
\* owned or owned by t (CMP/BEQ, CMP/BNE) and the depth read is not greater
\* than max_depth (CMP/BGT).
FastLockable(state, owner, t, max_depth) ==
    /\ owner = UNOWNED \/ owner = t
    /\ ~(state > max_depth)

\* __futex_fast_unlock, lines 82-86: the depth read is not zero (CBZ) and the
\* owner read is t (CMP/BNE).
FastUnlockable(state, owner, t) ==
    /\ state # 0
    /\ owner = t

\* LDRB %[mutexOwner], [%[mutexOwnerAddr]] and the tests that follow it in
\* __futex_fast_lock; the branch to .futex_fast_lock_non_lockable ends in CLREX
\* with success = 1.
FastLockOwner(t, onStrex, onFail) ==
    /\ IF FastLockable(rState[t], fowner, t, FUTEX_LOCK_MAX_DEPTH)
       THEN /\ mon' = Keep(t)
            /\ rOwner' = [rOwner EXCEPT ![t] = fowner]
            /\ rState' = rState
            /\ FGoto(t, onStrex)
            /\ UNCHANGED schedVars
       ELSE /\ mon' = NoThread
            /\ onFail
    /\ UNCHANGED <<fstate, fowner>>

\* ------------------------------------------------------------- futex_lock
futex_lock(t) ==
    \/ FutexCall(t, "flock", "flk_ldrex")
    \/ /\ pc[t] = "flk_ldrex"
       /\ FLdrex(t, "flk_ldrb")
    \/ /\ pc[t] = "flk_ldrb"
       /\ FastLockOwner(t, "flk_strex", FStep(t, "flk_yield"))
    \/ /\ pc[t] = "flk_strex"
       /\ FStrex(t, rState[t] + 1, FStep(t, "flk_setowner"), FStep(t, "flk_yield"))
    \/ /\ pc[t] = "flk_yield"
       /\ mon' = NoThread
       /\ FGoto(t, "flk_ldrex")
       /\ sched_yield(t)
       /\ UNCHANGED <<rState, rOwner, fstate, fowner>>
    \/ /\ pc[t] = "flk_setowner"
       /\ fowner' = t
       /\ mon' = Keep(t)
       /\ FReturn(t, 0)
       /\ UNCHANGED fstate

\* ---------------------------------------------------------- futex_trylock
futex_trylock(t) ==
    \/ FutexCall(t, "ftrylock", "ftr_ldrex")
    \/ /\ pc[t] = "ftr_ldrex"
       /\ FLdrex(t, "ftr_ldrb")
    \/ /\ pc[t] = "ftr_ldrb"
       /\ FastLockOwner(t, "ftr_strex", FReturn(t, 1))
    \/ /\ pc[t] = "ftr_strex"
       /\ FStrex(t, rState[t] + 1, FReturn(t, 0), FReturn(t, 1))

\* ----------------------------------------------------------- futex_unlock
futex_unlock(t) ==
    \/ FutexCall(t, "funlock", "fun_ldrex")
    \/ /\ pc[t] = "fun_ldrex"
       /\ FLdrex(t, "fun_ldrb")
    \/ /\ pc[t] = "fun_ldrb"
       /\ IF FastUnlockable(rState[t], fowner, t)
          THEN /\ mon' = Keep(t)
               /\ rOwner' = [rOwner EXCEPT ![t] = fowner]
               /\ rState' = rState
               /\ FGoto(t, "fun_strex")
               /\ UNCHANGED schedVars
          ELSE /\ mon' = NoThread
               /\ FReturn(t, 1)
       /\ UNCHANGED <<fstate, fowner>>
    \/ /\ pc[t] = "fun_strex"
       /\ FStrex(t, rState[t] - 1, FStep(t, "fun_check"), FReturn(t, 1))
    \/ /\ pc[t] = "fun_check"
       /\ IF fstate = 0 THEN FStep(t, "fun_setowner") ELSE FReturn(t, 0)
       /\ mon' = Keep(t)
       /\ UNCHANGED <<fstate, fowner>>
    \/ /\ pc[t] = "fun_setowner"
       /\ fowner' = UNOWNED
       /\ mon' = Keep(t)
       /\ FReturn(t, 0)
       /\ UNCHANGED fstate

FutexNext == \E t \in Threads : futex_lock(t) \/ futex_trylock(t) \/ futex_unlock(t)


\* -------------------------------------------------- recursive lock: properties

\* C2: recursive lock mutual exclusion.  Two different threads never both have a
\* successful claim (a 0 return of futex_lock or futex_trylock) that no
\* successful futex_unlock of theirs has released.
C2_FutexMutualExclusion ==
    \A t \in Threads : \A u \in Threads :
        (claims[t] > 0 /\ claims[u] > 0) => t = u

\* C2 witness: t has returned 0 from futex_lock while u was preempted between its
\* failed attempt and its yield.
C2_Witness ==
    \E t \in Threads : \E u \in Threads \ {t} :
        /\ claims[t] > 0 /\ op[t] = "flock" /\ pc[t] = "idle"
        /\ op[u] = "flock" /\ pc[u] = "flk_yield"

\* t is executing the exclusive store of a claim (futex_lock or futex_trylock).
ClaimStore(t) == pc[t] \in {"flk_strex", "ftr_strex"}

\* C12 (as claimed): the depth stays within [0, max_depth] and no thread has more
\* than max_depth successful claims outstanding.
C12_DepthBelowMaxDepth ==
    /\ fstate \in 0 .. FUTEX_LOCK_MAX_DEPTH
    /\ \A t \in Threads : claims[t] <= FUTEX_LOCK_MAX_DEPTH

\* C12 (amended): a claim stores only when the owner is unowned or the caller and
\* the depth is at most max_depth, and then it adds exactly 1; so no thread has
\* more than max_depth + 1 successful claims outstanding, a claim at depth
\* max_depth + 1 leaves the depth alone, and the depth stays within
\* [0, max_depth + 1].
C12_DepthAtMostMaxDepthPlusOne ==
    /\ [](/\ fstate \in 0 .. (FUTEX_LOCK_MAX_DEPTH + 1)
          /\ \A t \in Threads : claims[t] <= FUTEX_LOCK_MAX_DEPTH + 1)
    /\ [][\A t \in Threads :
            (ClaimStore(t) /\ pc'[t] # pc[t] /\ fstate' # fstate) =>
                /\ fowner \in {UNOWNED, t}
                /\ fstate <= FUTEX_LOCK_MAX_DEPTH
                /\ fstate' = fstate + 1
         ]_vars

\* C12 witness: the owner, holding max_depth + 1 claims, has tried one more and
\* has been refused with the depth unchanged.
C12_Witness ==
    \E t \in Threads :
        /\ Completed(t, "ftrylock") /\ ret[t] # 0
        /\ claims[t] = FUTEX_LOCK_MAX_DEPTH + 1
        /\ fowner = t
        /\ fstate = FUTEX_LOCK_MAX_DEPTH + 1

\* C13 (as claimed): after a 0 return of futex_lock or futex_trylock of t, alone
\* on the futex, the owner is t and the depth is the number of its claims; and
\* whenever no operation is in progress, depth 0 goes with owner 0xFF and only
\* with it.
C13_ClaimRecordsOwner ==
    /\ \A t \in Threads :
        ((Completed(t, "flock") \/ Completed(t, "ftrylock")) /\ ret[t] = 0 /\ Alone(t)) =>
            (fowner = t /\ fstate = claims[t])
    /\ (\A t \in Threads : pc[t] = "idle") => (fstate = 0 <=> fowner = UNOWNED)

\* C14 (as claimed): a completed futex_unlock of t, alone on the futex, has
\* either returned 0, having brought the owner back to 0xFF if the depth is now
\* 0, or it has returned nonzero because t was not the recorded owner or the
\* depth was 0 (a refused unlock stores nothing, so the futex is as it was when
\* the unlock was called).
C14_OwnerUnlockReleases ==
    \A t \in Threads :
        (Completed(t, "funlock") /\ Alone(t)) =>
            /\ ret[t] = 0 => (fstate = 0 => fowner = UNOWNED)
            /\ ret[t] # 0 => ~(fowner = t /\ fstate > 0)

\* ============================================================ call engine
\* One thread, its stack and its call stack.  os_rpc_call and os_rpc_return run
\* in the SVC handler, where nothing preempts them: each is one step, from the
\* trap to the exception return that resumes thread code.

\* Processes 0 .. NumProcs-1 are defined; one more service handle names a
\* method table that no process exports.
NumProcs == 2
\* Capacity of the thread's call stack.
RpcStackDepth == 2

MPU_STATE_SIZE == 7
MPU_HOSTED_STATE_SIZE == 4
OS_TASK_MPU_REGIONS == 5
E_VTABLE_UNKNOWN == 255
E_INVALID_ADDRESS == 4
E_IN_TOO_DEEP == 10
\* Words of the frame the CPU stacks on exception entry: r0-r3, r12, lr, pc, xpsr.
EXCEPTION_FRAME_ENTRIES == 8
\* The canary stored in argument 5 of the callee's frame: 0xAA55AA55, read as a
\* signed 32-bit word.
RPC_CANARY == 0 - 1437226411

Procs == 0 .. (NumProcs - 1)
Services == 0 .. NumProcs
Methods == {0, 1}
\* The calls a thread makes: <<method index, arguments 0..3>>.
CallInputs == {<<0, <<11, 12, 13, 14>>>>, <<1, <<21, 22, 23, 24>>>>}
Results == {31, 32}

StackWords == 12 * RpcStackDepth + 20
Addrs == 0 .. (StackWords - 1)

\* Addresses of code: the thread's own code, the instruction after the SVC of
\* the _rpc_call trampoline, the SVC of rpc_return, and rpc_return itself.
HomeCode == 900
CallSite == 901
ReturnSite == 902
rpc_return == 903

\* service->vtable, and the entry vtable[method_id].
ServiceVtable(service) == 100 + service
VtableEntry(vtable, method_id) == 10 * vtable + method_id
MethodEntries == {VtableEntry(ServiceVtable(s), m) : s \in Procs, m \in Methods}
EntryProcess(entry_pc) == (entry_pc \div 10) - 100

\* get_vtable_process(vtable): the process exporting the table, if any.
get_vtable_process(vtable) ==
    IF (vtable - 100) \in Procs THEN vtable - 100 ELSE E_VTABLE_UNKNOWN

\* os_processes[p].mpu: the region descriptors os_process_create computed.
ProcessMpu(p) == [q \in 0 .. (OS_TASK_MPU_REGIONS - 1) |-> 16 * (p + 1) + q]

\* mpu_load(state, base, count): descriptors base .. base+count-1 of `state`
\* replace those of the active mapping.
mpu_load(active, state, base, count) ==
    [i \in DOMAIN active |->
        IF i >= base /\ i < base + count THEN state[i] ELSE active[i]]

\* The hosted part of a mapping.
Hosted(map) == [i \in 0 .. (MPU_HOSTED_STATE_SIZE - 1) |-> map[i]]

\* rpc_stack_push / rpc_stack_pop / rpc_stack_top on the thread's call stack.
rpc_stack_can_push(stack) == Len(stack) < RpcStackDepth
rpc_stack_push(stack, process_id) == Append(stack, process_id)
rpc_stack_pop(stack) == IF Len(stack) > 0 THEN SubSeq(stack, 1, Len(stack) - 1) ELSE stack
rpc_stack_top(stack) == stack[Len(stack)]

\* Exception frames: argument n is r0..r3 for n < 4 and the word n-4 above the
\* frame otherwise.
ArgAddr(frame, n) ==
    IF n < 4 THEN frame + n ELSE frame + EXCEPTION_FRAME_ENTRIES + (n - 4)
get_exception_argument(mem, frame, n) == mem[ArgAddr(frame, n)]
set_exception_argument(mem, frame, n, v) == [mem EXCEPT ![ArgAddr(frame, n)] = v]
set_exception_pc_lr(mem, frame, new_pc, new_lr) ==
    [mem EXCEPT ![frame + 5] = new_lr, ![frame + 6] = new_pc]
push_exception_frame(frame, args) == frame - (EXCEPTION_FRAME_ENTRIES + args)
pop_exception_frame(frame, args) == frame + (EXCEPTION_FRAME_ENTRIES + args)

\* Exception entry: the CPU stacks a frame below `top`.
StackFrame(mem, top, a, frame_pc) ==
    LET frame == top - EXCEPTION_FRAME_ENTRIES IN
    [mem EXCEPT ![frame] = a[1], ![frame + 1] = a[2], ![frame + 2] = a[3],
                ![frame + 3] = a[4], ![frame + 4] = 0, ![frame + 5] = 0,
                ![frame + 6] = frame_pc, ![frame + 7] = 0]

\* ------------------------------------------------------------ os_rpc_call
RpcCallErrorNoResolve(process_id, stack) ==
    IF ~rpc_stack_can_push(stack) THEN E_IN_TOO_DEEP ELSE E_OK

RpcCallErrorNoDepth(process_id, stack) ==
    IF process_id = E_VTABLE_UNKNOWN THEN E_INVALID_ADDRESS ELSE E_OK

\* Lines 35-43: the two early returns of os_rpc_call.
RpcCallError(process_id, stack) ==
    IF process_id = E_VTABLE_UNKNOWN THEN E_INVALID_ADDRESS
    ELSE IF ~rpc_stack_can_push(stack) THEN E_IN_TOO_DEEP
    ELSE E_OK

CallMappingKept(active, process_id) == active

\* Line 45: mpu_load(&os_processes[process_id].mpu, 0, MPU_HOSTED_STATE_SIZE).
CallMapping(active, process_id) ==
    mpu_load(active, ProcessMpu(process_id), 0, MPU_HOSTED_STATE_SIZE)

\* Lines 57-62: remote frame arg [1 .. 4] = local frame arg [0 .. 3], from q on.
RECURSIVE CopyArguments(_, _, _, _)
CopyArguments(mem, local_frame, remote_frame, q) ==
    IF q >= 4 THEN mem
    ELSE CopyArguments(
            set_exception_argument(mem, remote_frame, q + 1,
                                   get_exception_argument(mem, local_frame, q)),
            local_frame, remote_frame, q + 1)

RemoteFrameUnshifted(mem, local_frame, remote_frame, service, method) ==
    LET copied == [mem EXCEPT ![remote_frame] = mem[local_frame],
                              ![remote_frame + 1] = mem[local_frame + 1],
                              ![remote_frame + 2] = mem[local_frame + 2],
                              ![remote_frame + 3] = mem[local_frame + 3]]
        withCanary == set_exception_argument(copied, remote_frame, 5, RPC_CANARY)
    IN set_exception_pc_lr(withCanary, remote_frame, method, rpc_return)

\* Lines 53-66: the callee's frame, built from the caller's.
RemoteFrame(mem, local_frame, remote_frame, service, method) ==
    LET shifted == CopyArguments(mem, local_frame, remote_frame, 0)
        withService == set_exception_argument(shifted, remote_frame, 0, service)
        withCanary == set_exception_argument(withService, remote_frame, 5, RPC_CANARY)
    IN set_exception_pc_lr(withCanary, remote_frame, method, rpc_return)

\* os_rpc_call on the machine state m = [stk, psp, rpc_stack, mpu]: the state it
\* leaves and the value it returns.
os_rpc_call(m) ==
    LET local_frame == m.psp
        arg0 == get_exception_argument(m.stk, local_frame, 0)
        service == get_exception_argument(m.stk, local_frame, 4)
        vtable == ServiceVtable(service)
        process_id == get_vtable_process(vtable)
        error == RpcCallError(process_id, m.rpc_stack)
        method_id == get_exception_argument(m.stk, local_frame, 5)
        method == VtableEntry(vtable, method_id)
        remote_frame == push_exception_frame(local_frame, 2)
    IN  IF error # E_OK
        THEN [stk |-> m.stk, psp |-> m.psp, rpc_stack |-> m.rpc_stack,
              mpu |-> m.mpu, ret |-> error]
        ELSE [stk |-> RemoteFrame(m.stk, local_frame, remote_frame, service, method),
              psp |-> remote_frame,
              rpc_stack |-> IF rpc_stack_can_push(m.rpc_stack)
                            THEN rpc_stack_push(m.rpc_stack, process_id)
                            ELSE m.rpc_stack,
              mpu |-> CallMapping(m.mpu, process_id),
              ret |-> arg0]

\* ---------------------------------------------------------- os_rpc_return
ReturnProcessHome(stack, owner) == owner

\* Lines 92-107: the process whose mapping the return restores, from the call
\* stack as rpc_stack_pop left it.
ReturnProcess(stack, owner) ==
    IF Len(stack) > 0 THEN rpc_stack_top(stack) ELSE owner

ResultFrameRemote(remote_frame) == remote_frame

\* Lines 90 and 136: the frame that receives the result in argument 0.
ResultFrame(remote_frame) == pop_exception_frame(remote_frame, 2)

os_rpc_return(m, owner) ==
    LET remote_frame == m.psp
        arg0 == get_exception_argument(m.stk, remote_frame, 0)
        local_frame == pop_exception_frame(remote_frame, 2)
        popped == rpc_stack_pop(m.rpc_stack)
        process_id == ReturnProcess(popped, owner)
    IN  [stk |-> set_exception_argument(m.stk, ResultFrame(remote_frame), 0, arg0),
         psp |-> local_frame,
         rpc_stack |-> popped,
         mpu |-> mpu_load(m.mpu, ProcessMpu(process_id), 0, MPU_HOSTED_STATE_SIZE),
         ret |-> arg0]

\* ------------------------------------------------------------------ traps
\* sv_call_handler stores the handler's return value in r0 of the frame the
\* trap came in with; the exception return then unstacks the frame at PSP.
Machine == [stk |-> stk, psp |-> sp, rpc_stack |-> rpc_stack, mpu |-> mpu]

Resume(out, entry_frame, unwind) ==
    LET mem == [out.stk EXCEPT ![entry_frame] = out.ret] IN
    /\ stk' = mem
    /\ rpc_stack' = out.rpc_stack
    /\ mpu' = out.mpu
    /\ r0' = mem[out.psp]
    /\ run' = mem[out.psp + 6]
    /\ sp' = out.psp + EXCEPTION_FRAME_ENTRIES + unwind

RpcInit ==
    /\ home \in Procs
    /\ rpc_stack = <<>>
    /\ mpu = mpu_load([i \in 0 .. (MPU_STATE_SIZE - 1) |-> 0], ProcessMpu(home),
                      0, MPU_HOSTED_STATE_SIZE)
    /\ stk = [i \in Addrs |-> 0]
    /\ sp = StackWords
    /\ run = HomeCode
    /\ r0 = 0
    /\ saved = <<>>
    /\ frames = <<>>
    /\ last = <<"none", 0, 0>>

\* The record of a trapped caller: the eight words the CPU stacked at `frame`
\* and the two stack arguments above them.
RecordWords == EXCEPTION_FRAME_ENTRIES + 2
Record(mem, frame) == [i \in 0 .. (RecordWords - 1) |-> mem[frame + i]]

\* The thread calls rpc_call(service, method, a...): _rpc_call puts service and
\* method on the stack and traps; os_rpc_call runs.  A refused call returns
\* through _rpc_call, which drops its two stack arguments again.
RpcCall(service, method_id, a) ==
    LET args_at == sp - 2
        trapped == [StackFrame(stk, args_at, a, CallSite)
                        EXCEPT ![args_at] = service, ![args_at + 1] = method_id]
        local_frame == args_at - EXCEPTION_FRAME_ENTRIES
    IN  \E out \in {os_rpc_call([Machine EXCEPT !.stk = trapped, !.psp = local_frame])} :
        LET entered == out.psp # local_frame IN
        /\ Resume(out, local_frame, IF entered THEN 0 ELSE 2)
        /\ saved' = IF entered THEN Append(saved, mpu) ELSE saved
        /\ frames' = IF entered
                     THEN Append(frames, <<local_frame, Record(trapped, local_frame)>>)
                     ELSE frames
        /\ last' = <<"call", service, out.ret>>
        /\ UNCHANGED <<home, lockVars, kernVars>>

\* The method running on behalf of the last open call returns `result`: it
\* ends in rpc_return, which traps; os_rpc_return runs and the caller resumes
\* in _rpc_call, which drops its two stack arguments.
RpcReturn(result) ==
    LET remote_frame == sp - EXCEPTION_FRAME_ENTRIES
        trapped == StackFrame(stk, sp, <<result, 0, 0, 0>>, ReturnSite)
    IN  \E out \in {os_rpc_return([Machine EXCEPT !.stk = trapped, !.psp = remote_frame], home)} :
        /\ Len(rpc_stack) > 0
        /\ Resume(out, remote_frame, 2)
        /\ saved' = SubSeq(saved, 1, Len(saved) - 1)
        /\ frames' = SubSeq(frames, 1, Len(frames) - 1)
        /\ last' = <<"return", result, out.ret>>
        /\ UNCHANGED <<home, lockVars, kernVars>>

RpcNext ==
    \/ \E service \in Services, c \in CallInputs : RpcCall(service, c[1], c[2])
    \/ \E result \in Results : RpcReturn(result)

\* ========================================================== process table
\* os_process_create runs in privileged code with nothing preempting it: one
\* step per call.
OS_PROCESSES == 8
E_INVALID == 3
E_OUT_OF_RANGE == 5
NULL == 0

\* Process definitions are named 1, 2, ...; a definition is five regions
\* <<start, end>>.  Definitions 1 and 2 are valid; the others are definition 2
\* with one region (the first, the middle, the last one) ending 16 bytes early.
NumDefinitions == 5
Definitions == 1 .. NumDefinitions
Regions == 0 .. (OS_TASK_MPU_REGIONS - 1)
ValidRegions(definition) ==
    [q \in Regions |-> <<64 * definition * (q + 1), 64 * definition * (q + 2)>>]
BadRegion(definition) == (2 * (definition - 3)) % OS_TASK_MPU_REGIONS
mpu_regions(definition) ==
    IF definition <= 2 THEN ValidRegions(definition)
    ELSE [ValidRegions(2) EXCEPT ![BadRegion(definition)] = <<@[1], @[2] - 16>>]

\* The ids os_process_create is called with: the first NumCreated slots, the
\* last slot, and two ids beyond the table.
NumCreated == 2
ProcessIds == (0 .. (NumCreated - 1)) \cup {OS_PROCESSES - 1, OS_PROCESSES, 255}

RECURSIVE IsPowerOfTwo(_)
IsPowerOfTwo(n) == n = 1 \/ (n > 1 /\ n % 2 = 0 /\ IsPowerOfTwo(n \div 2))

\* mpu_configure_region(q, base, size, MPU_RW, &RBAR, &RASR): an aperture the
\* MPU can hold is a power of two of at least 32 bytes, aligned to its size.
\* The value returned and the descriptor <<RBAR, RASR>> computed.
mpu_configure_region(q, base, size) ==
    IF size >= 32 /\ IsPowerOfTwo(size) /\ base % size = 0
    THEN [rv |-> E_OK, descriptor |-> <<base + 16 + q, size>>]
    ELSE [rv |-> E_INVALID, descriptor |-> <<0, 0>>]

NoDescriptor == <<0, 0>>
NoProcess == [definition |-> NULL, mpu |-> [q \in Regions |-> NoDescriptor]]
NoProcesses == [p \in 0 .. (OS_PROCESSES - 1) |-> NoProcess]

ProcessDefinedNever(process) == FALSE

\* Line 81: os_processes[process_id].definition != NULL.
ProcessDefined(process) == process.definition # NULL

RegionFailedKept(process) == process

\* Line 93: os_processes[process_id].definition = NULL.
RegionFailed(process) == [process EXCEPT !.definition = NULL]

\* Lines 87-96, from region q on: the table entry as the loop leaves it and the
\* value os_process_create returns.
RECURSIVE ConfigureRegions(_, _, _)
ConfigureRegions(process, regions, q) ==
    IF q >= OS_TASK_MPU_REGIONS THEN [process |-> process, rv |-> E_OK]
    ELSE LET reg_size == regions[q][2] - regions[q][1]
             done == mpu_configure_region(q, regions[q][1], reg_size)
         IN  IF done.rv # E_OK
             THEN [process |-> RegionFailed(process), rv |-> E_INVALID]
             ELSE ConfigureRegions([process EXCEPT !.mpu[q] = done.descriptor],
                                   regions, q + 1)

\* os_process_create(process_id, definition) on the table: the table it leaves
\* and the value it returns.
os_process_create(table, process_id, definition) ==
    IF process_id >= OS_PROCESSES
    THEN [table |-> table, rv |-> E_OUT_OF_RANGE]
    ELSE IF ProcessDefined(table[process_id])
    THEN [table |-> table, rv |-> E_INVALID]
    ELSE LET out == ConfigureRegions([table[process_id] EXCEPT !.definition = definition],
                                     mpu_regions(definition), 0)
         IN  [table |-> [table EXCEPT ![process_id] = out.process], rv |-> out.rv]

\* A create of this id has failed before, leaving descriptors behind.
FailedBefore(process_id) ==
    /\ process_id < OS_PROCESSES
    /\ os_processes[process_id].definition = NULL
    /\ os_processes[process_id].mpu # NoProcess.mpu

ProcessCreate(process_id, definition) ==
    \E out \in {os_process_create(os_processes, process_id, definition)} :
        /\ os_processes' = out.table
        /\ created' = <<process_id, definition, out.rv, FailedBefore(process_id)>>
        /\ UNCHANGED <<lockVars, rpcVars, bootVars, schedVars>>

ProcNext == \E process_id \in ProcessIds, definition \in Definitions :
                ProcessCreate(process_id, definition)

\* ========================================================= thread bootstrap
\* A thread is created on a stack of stack_size words (os_thread_populate_stack
\* builds its first frame and its saved stack pointer is the address returned),
\* os_boot_thread starts it, and its entrypoint returns.  Addresses on the
\* stack are word indexes: &stack[i] is i.
OS_STACK_SIZE == 1024
\* 0x01000000, the Thumb bit.
XPSR_THUMB == 16777216
\* CONTROL = 0x03: SPSEL | nPRIV.
CONTROL_THREAD_UNPRIVILEGED == 3
\* Code addresses.
os_thread_dispose == 904
Entrypoints == {910, 911}
\* 0xCAFEBABE as a signed 32-bit word, among the data pointers passed.
ThreadData == {0, 7, 0 - 889275714}
ExitStatuses == {0, 1, 0 - 1}
\* What the stack memory held before: the code does not initialise it.
StackFill == {0, 85}
\* The smallest stack the returned pointer &stack[stack_size - 16] lies in.
MinStackWords == 16
StackSizes == {MinStackWords, MinStackWords + 1, OS_STACK_SIZE}

NoCpu == [psp |-> 0, control |-> 0, pc |-> 0, lr |-> 0, r0 |-> 0, xpsr |-> 0]
NoBoot == <<"none", 0, 0, 0, 0, 0>>

\* os_thread_populate_stack: the stack as it leaves it and the address it
\* returns.
os_thread_populate_stack(mem, stack_size, entrypoint, data) ==
    [stack |-> [mem EXCEPT ![stack_size - 8] = data,
                           ![stack_size - 3] = os_thread_dispose,
                           ![stack_size - 2] = entrypoint,
                           ![stack_size - 1] = XPSR_THUMB],
     sp |-> stack_size - 16]

BootSpNoSkip(saved_sp) == saved_sp

\* Line 107: thread_sp = thread->sp + 8.
BootSp(saved_sp) == saved_sp + 8

\* __ISR_return(): the exception return unstacks r0-r3, r12, lr, pc, xpsr from
\* the frame at PSP.
ExceptionReturn(mem, psp, control) ==
    [psp |-> psp + EXCEPTION_FRAME_ENTRIES, control |-> control,
     pc |-> mem[psp + 6], lr |-> mem[psp + 5], r0 |-> mem[psp], xpsr |-> mem[psp + 7]]

ThreadCreate(stack_size, entrypoint, data, fill) ==
    \E out \in {os_thread_populate_stack([i \in 0 .. (stack_size - 1) |-> fill],
                                         stack_size, entrypoint, data)} :
        /\ boot[1] = "none"
        /\ thread_stack' = out.stack
        /\ thread_sp' = out.sp
        /\ boot' = <<"created", stack_size, entrypoint, data, 0, 0>>
        /\ UNCHANGED <<cpu, lockVars, rpcVars, procVars, schedVars>>

os_boot_thread ==
    /\ boot[1] = "created"
    /\ cpu' = ExceptionReturn(thread_stack, BootSp(thread_sp), CONTROL_THREAD_UNPRIVILEGED)
    /\ boot' = [boot EXCEPT ![1] = "running", ![5] = BootSp(thread_sp)]
    /\ UNCHANGED <<thread_stack, thread_sp, lockVars, rpcVars, procVars, schedVars>>

\* The function the thread runs returns v to the address in LR.
EntrypointReturns(v) ==
    /\ boot[1] = "running"
    /\ cpu' = [cpu EXCEPT !.pc = cpu.lr, !.r0 = v]
    /\ boot' = [boot EXCEPT ![1] = "returned", ![6] = v]
    /\ UNCHANGED <<thread_stack, thread_sp, lockVars, rpcVars, procVars, schedVars>>

BootNext ==
    \/ \E stack_size \in StackSizes, entrypoint \in Entrypoints,
          data \in ThreadData, fill \in StackFill :
            ThreadCreate(stack_size, entrypoint, data, fill)
    \/ os_boot_thread
    \/ \E v \in ExitStatuses : EntrypointReturns(v)

\* ================================================= locks under the scheduler
\* The binary lock with the schedule no longer left open: one CPU, which
\* executes current_thread, always a ready thread of the best priority.  Each
\* thread locks the mutex once and, having got it, unlocks it once; then it
\* exits.  When no thread is ready the idle thread runs.
Priorities == {0, 1}
IdleThread == 254

\* The ready threads no ready thread has a better priority than.
BestReady(isReady) ==
    {t \in Threads : isReady[t] /\ \A u \in Threads : isReady[u] => priority[t] <= priority[u]}

\* The thread the scheduler picks among the ready ones.
Schedule(isReady) ==
    IF BestReady(isReady) = {} THEN {IdleThread} ELSE BestReady(isReady)

SchedStart ==
    /\ priority \in [Threads -> Priorities]
    /\ ready \in [Threads -> BOOLEAN]
    /\ current_thread \in Schedule(ready)

\* t has unlocked the mutex again.
Finished(t) == pc[t] = "idle" /\ op[t] = "unlock"

\* thread_exit(): the thread is no longer ready and the scheduler picks the
\* next one.
thread_exit(t) ==
    /\ Finished(t)
    /\ ready' = [ready EXCEPT ![t] = FALSE]
    /\ current_thread' \in Schedule(ready')
    /\ UNCHANGED <<priority, lockVars, rpcVars, procVars, bootVars>>

\* The steps of thread t, which it takes while it has the CPU.
Run(t) ==
    /\ current_thread = t
    /\ \/ /\ pc[t] = "idle" => op[t] = "none"
          /\ mutex_lock(t)
       \/ /\ pc[t] = "idle" => (op[t] = "lock" /\ holds[t])
          /\ mutex_unlock(t)
       \/ thread_exit(t)

\* The exclusive store of t's claim or clear succeeds.
StoreSucceeds(t) ==
    /\ pc[t] \in {"lock_strex", "unl_strex"}
    /\ Run(t)
    /\ mstate' # mstate

\* A thread that was sleeping becomes ready; it preempts the running thread if
\* its priority is better.
Wake(t) ==
    /\ ~ready[t]
    /\ ~Finished(t)
    /\ ready' = [ready EXCEPT ![t] = TRUE]
    /\ current_thread' = IF current_thread = IdleThread THEN t
                         ELSE IF priority[t] < priority[current_thread] THEN t
                         ELSE current_thread
    /\ UNCHANGED <<priority, lockVars, rpcVars, procVars, bootVars>>

\* The timer: the time slice of the running thread ends, and the CPU goes to
\* another ready thread of the same priority if there is one.
os_sched_timed_event ==
    /\ current_thread \in Threads
    /\ current_thread' \in NextThreads(current_thread)
    /\ UNCHANGED <<priority, ready, lockVars, rpcVars, procVars, bootVars>>

SchedNext ==
    \/ \E t \in Threads : Run(t)
    \/ \E t \in Threads : Wake(t)
    \/ os_sched_timed_event

\* ---------------------------------------------------------- specifications
\* While the locks are exercised the call engine rests, and conversely.
RpcIdle ==
    /\ home = 0
    /\ rpc_stack = <<>>
    /\ mpu = [i \in 0 .. (MPU_STATE_SIZE - 1) |-> 0]
    /\ stk = <<>>
    /\ sp = 0
    /\ run = HomeCode
    /\ r0 = 0
    /\ saved = <<>>
    /\ frames = <<>>
    /\ last = <<"none", 0, 0>>

\* No process created yet (the table is zero-initialised), no thread booted,
\* the schedule left open.
ProcIdle ==
    /\ os_processes = NoProcesses
    /\ created = <<0, NULL, E_OK, FALSE>>

BootIdle ==
    /\ thread_stack = <<>>
    /\ thread_sp = 0
    /\ cpu = NoCpu
    /\ boot = NoBoot

SchedIdle ==
    /\ current_thread = NoThread
    /\ priority = [t \in Threads |-> 0]
    /\ ready = [t \in Threads |-> TRUE]

LockInit == MutexInit /\ FutexInit /\ RpcIdle /\ ProcIdle /\ BootIdle /\ SchedIdle

CallInit == MutexInit /\ FutexInit /\ RpcInit /\ ProcIdle /\ BootIdle /\ SchedIdle

SpecMutex == LockInit /\ [][MutexNext]_vars

SpecFutex == LockInit /\ [][FutexNext]_vars

SpecRpc == CallInit /\ [][RpcNext]_vars

ProcInit == MutexInit /\ FutexInit /\ RpcIdle /\ ProcIdle /\ BootIdle /\ SchedIdle

SpecProc == ProcInit /\ [][ProcNext]_vars

BootInit == MutexInit /\ FutexInit /\ RpcIdle /\ ProcIdle /\ BootIdle /\ SchedIdle

SpecBoot == BootInit /\ [][BootNext]_vars

SchedInit == MutexInit /\ FutexInit /\ RpcIdle /\ ProcIdle /\ BootIdle /\ SchedStart

\* The scheduler gives the CPU to the running thread again and again, exclusive
\* stores do not fail for ever, and time slices end.
SpecSched ==
    /\ SchedInit
    /\ [][SchedNext]_vars
    /\ \A t \in Threads : SF_vars(Run(t)) /\ SF_vars(StoreSucceeds(t))
    /\ WF_vars(os_sched_timed_event)

\* The binary lock with the scheduling mutex_unlock relies on: a thread inside
\* mutex_unlock keeps getting the CPU, and of the exclusive stores of its retry
\* loop only finitely many fail.
SpecMutexFair ==
    /\ LockInit
    /\ [][MutexNext]_vars
    /\ \A t \in Threads : WF_vars(UnlockStep(t)) /\ SF_vars(UnlockStoreSucceeds(t))

\* --------------------------------------------------- call engine: properties

Top(stack) == stack[Len(stack)]

\* The service resolves to an exporting process.
Resolvable(service) == get_vtable_process(ServiceVtable(service)) # E_VTABLE_UNKNOWN

\* The hosted regions of the active mapping are those of process p.
HostedIs(map, p) == Hosted(map) = Hosted(ProcessMpu(p))

\* The step left the stack untouched except for the frame of the trap itself
\* (the two stack arguments and the eight words stacked by the CPU).
OnlyTrapFrameWritten ==
    \A i \in Addrs :
        (i < sp - (EXCEPTION_FRAME_ENTRIES + 2) \/ i >= sp) => stk'[i] = stk[i]

\* A call that changed nothing: the caller resumes behind the trap with the
\* error in r0.
NoTransition(error) ==
    /\ last'[3] = error
    /\ r0' = error
    /\ run' = CallSite
    /\ rpc_stack' = rpc_stack
    /\ mpu' = mpu
    /\ sp' = sp
    /\ OnlyTrapFrameWritten

\* A call that did everything: callee pushed, its mapping hosted, its frame
\* stacked and the stack pointer moved to it, the method entered.
WholeTransition(service) ==
    LET p == get_vtable_process(ServiceVtable(service)) IN
    /\ rpc_stack' = Append(rpc_stack, p)
    /\ HostedIs(mpu', p)
    /\ sp' = sp - (EXCEPTION_FRAME_ENTRIES + 2) - 2
    /\ stk'[sp' - EXCEPTION_FRAME_ENTRIES + 5] = rpc_return
    /\ run' \in MethodEntries
    /\ EntryProcess(run') = p

\* C3: whenever a callee method body has been entered, the callee's process id
\* is on top of the thread's call stack and the hosted regions of the active
\* mapping are the first MPU_HOSTED_STATE_SIZE descriptors of that process.
C3_CalleeRunsUnderItsMapping ==
    run \in MethodEntries =>
        /\ last[1] = "call"
        /\ EntryProcess(run) = get_vtable_process(ServiceVtable(last[2]))
        /\ Len(rpc_stack) > 0
        /\ Top(rpc_stack) = EntryProcess(run)
        /\ HostedIs(mpu, EntryProcess(run))

\* C3 witness: a nested call has entered a method of a process other than the
\* one whose method called it.
C3_Witness ==
    /\ run \in MethodEntries
    /\ Len(rpc_stack) = 2
    /\ rpc_stack[1] # rpc_stack[2]
    /\ HostedIs(mpu, rpc_stack[2])
    /\ ~HostedIs(mpu, rpc_stack[1])

\* C4: every os_rpc_return pops exactly one entry of the call stack and makes
\* the active mapping the one that was active right before the matching call:
\* that of the process now on top of the call stack, or of the thread's home
\* process when the stack has become empty.
C4_ReturnRestoresMapping ==
    [][last'[1] = "return" =>
        /\ Len(rpc_stack) > 0
        /\ rpc_stack' = SubSeq(rpc_stack, 1, Len(rpc_stack) - 1)
        /\ mpu' = saved[Len(saved)]
        /\ HostedIs(mpu', IF Len(rpc_stack') > 0 THEN Top(rpc_stack') ELSE home)
      ]_vars

\* C4 witness: a return from nesting depth 2 has restored the mapping of the
\* callee at depth 1, which is not the home process.
C4_Witness ==
    /\ last[1] = "return"
    /\ Len(rpc_stack) = 1
    /\ rpc_stack[1] # home
    /\ HostedIs(mpu, rpc_stack[1])
    /\ ~HostedIs(mpu, home)

\* C5: the call stack never exceeds its capacity; a call through a resolvable
\* service succeeds while the stack is below capacity, and at capacity it
\* returns E_IN_TOO_DEEP and changes neither the call stack, nor the mapping,
\* nor the stack pointer, nor any activation record.
C5_NestingBounded ==
    [][last'[1] = "call" =>
        /\ Len(rpc_stack') <= RpcStackDepth
        /\ (Resolvable(last'[2]) /\ Len(rpc_stack) < RpcStackDepth)
                => WholeTransition(last'[2])
        /\ (Resolvable(last'[2]) /\ Len(rpc_stack) >= RpcStackDepth)
                => NoTransition(E_IN_TOO_DEEP)
      ]_vars

\* C5 witness: a call at full depth has been refused.
C5_Witness ==
    /\ last[1] = "call"
    /\ Resolvable(last[2])
    /\ last[3] = E_IN_TOO_DEEP
    /\ Len(rpc_stack) = RpcStackDepth
    /\ run = CallSite

\* C6: a call through a service that resolves to no process returns
\* E_INVALID_ADDRESS and changes nothing, and every call performs either the
\* whole transition or none of it.
C6_CallAllOrNothing ==
    [][last'[1] = "call" =>
        /\ ~Resolvable(last'[2]) => NoTransition(E_INVALID_ADDRESS)
        /\ \/ WholeTransition(last'[2])
           \/ NoTransition(E_INVALID_ADDRESS)
           \/ NoTransition(E_IN_TOO_DEEP)
      ]_vars

\* C6 witness: inside a callee, a call through an unresolvable service has been
\* refused.
C6_Witness ==
    /\ last[1] = "call"
    /\ ~Resolvable(last[2])
    /\ last[3] = E_INVALID_ADDRESS
    /\ r0 = E_INVALID_ADDRESS
    /\ Len(rpc_stack) > 0

\* C7: after os_rpc_return(result) the caller resumes behind its call with
\* result in r0, read from argument slot 0 of its own activation record.
C7_ResultReachesCaller ==
    last[1] = "return" =>
        /\ last[3] = last[2]
        /\ r0 = last[2]
        /\ run = CallSite
        /\ stk[sp - 2 - EXCEPTION_FRAME_ENTRIES] = last[2]

\* C7 witness: a method called from another method has returned 32 to it.
C7_Witness ==
    /\ last = <<"return", 32, 32>>
    /\ Len(rpc_stack) = 1
    /\ r0 = 32

\* The record at `frame` is word for word the record `words`.
RecordIs(mem, frame, words) ==
    \A i \in 0 .. (RecordWords - 1) : mem[frame + i] = words[i]

\* C19: a successful os_rpc_call stacks the callee's record right above the
\* caller's: argument 0 is the service, arguments 1..4 are the caller's
\* arguments 0..3, argument 5 is the canary 0xAA55AA55, the program counter is
\* vtable[method_id] and the link is rpc_return; it leaves the caller's record
\* as it trapped in.  That record stays intact while the call is open, and it
\* is the record the matching os_rpc_return resumes, with the result in its
\* argument 0.
C19_CalleeRecord ==
    /\ [](\A k \in 1 .. Len(frames) : RecordIs(stk, frames[k][1], frames[k][2]))
    /\ [][(last'[1] = "call" /\ Len(rpc_stack') > Len(rpc_stack)) =>
            LET caller == frames'[Len(frames')]
                local == caller[1]
                remote == local - RecordWords
            IN  /\ local = sp - RecordWords
                /\ caller[2][6] = CallSite
                /\ caller[2][8] = last'[2]
                /\ sp' = remote + EXCEPTION_FRAME_ENTRIES
                /\ get_exception_argument(stk', remote, 0) = last'[2]
                /\ \A q \in 0 .. 3 :
                       get_exception_argument(stk', remote, q + 1) = caller[2][q]
                /\ get_exception_argument(stk', remote, 5) = RPC_CANARY
                /\ stk'[remote + 6] = VtableEntry(ServiceVtable(last'[2]), caller[2][9])
                /\ stk'[remote + 5] = rpc_return
                /\ run' = stk'[remote + 6]
                /\ r0' = last'[2]
         ]_vars
    /\ [][last'[1] = "return" =>
            LET caller == frames[Len(frames)] IN
            /\ sp' = caller[1] + RecordWords
            /\ run' = caller[2][6]
            /\ stk'[caller[1]] = last'[2]
            /\ \A i \in 1 .. (RecordWords - 1) : stk'[caller[1] + i] = caller[2][i]
         ]_vars

\* C19 witness: a method entered through a nested call runs on the record built
\* from its caller's, whose arguments were 21..24 and whose method index was 1.
C19_Witness ==
    /\ last[1] = "call"
    /\ Len(frames) = 2
    /\ run = VtableEntry(ServiceVtable(last[2]), 1)
    /\ frames[2][2][0] = 21
    /\ stk[sp - EXCEPTION_FRAME_ENTRIES + 1] = 21
    /\ stk[sp + 1] = RPC_CANARY

\* ------------------------------------------------ process table: properties

\* Region q of the definition validates, and the descriptor computed for it.
RegionValid(definition, q) ==
    LET r == mpu_regions(definition)[q] IN
    mpu_configure_region(q, r[1], r[2] - r[1]).rv = E_OK
RegionDescriptor(definition, q) ==
    LET r == mpu_regions(definition)[q] IN
    mpu_configure_region(q, r[1], r[2] - r[1]).descriptor

\* C15: an os_process_create with process_id >= OS_PROCESSES returns
\* E_OUT_OF_RANGE and leaves the whole table as it was; one for a defined
\* process returns E_INVALID and leaves the table as it was; and no call
\* changes the definition or the region descriptors of a defined process.
C15_CreateRejections ==
    [][LET process_id == created'[1]
           rv == created'[3]
       IN  /\ process_id >= OS_PROCESSES =>
                (rv = E_OUT_OF_RANGE /\ os_processes' = os_processes)
           /\ (process_id < OS_PROCESSES /\ os_processes[process_id].definition # NULL) =>
                (rv = E_INVALID /\ os_processes' = os_processes)
           /\ \A p \in DOMAIN os_processes :
                os_processes[p].definition # NULL => os_processes'[p] = os_processes[p]
      ]_vars

\* C15 witness: a process defined by one definition has been created again with
\* another, valid one; the call was refused and the first definition stands.
C15_Witness ==
    /\ created[1] < OS_PROCESSES
    /\ created[3] = E_INVALID
    /\ \A q \in Regions : RegionValid(created[2], q)
    /\ os_processes[created[1]].definition \notin {NULL, created[2]}
    /\ \A p \in DOMAIN os_processes :
         os_processes[p].definition # NULL =>
            \A q \in Regions :
                os_processes[p].mpu[q] = RegionDescriptor(os_processes[p].definition, q)

\* C16: an os_process_create of an undefined in-range id returns E_OK exactly
\* when all OS_TASK_MPU_REGIONS regions validate, and then the process is
\* defined and every one of its descriptors is the one computed from the
\* definition; otherwise it returns E_INVALID, has written the descriptors
\* before the first invalid region and none from it on, and leaves the
\* definition NULL, so that the id can be created again.
C16_CreateValidates ==
    [][LET process_id == created'[1]
           definition == created'[2]
           rv == created'[3]
           invalid == {q \in Regions : ~RegionValid(definition, q)}
       IN  (process_id < OS_PROCESSES /\ os_processes[process_id].definition = NULL) =>
            LET before == os_processes[process_id]
                after == os_processes'[process_id]
            IN  /\ rv = E_OK <=> invalid = {}
                /\ rv = E_OK =>
                    /\ after.definition = definition
                    /\ \A q \in Regions : after.mpu[q] = RegionDescriptor(definition, q)
                /\ rv # E_OK =>
                    /\ rv = E_INVALID
                    /\ after.definition = NULL
                    /\ \A q \in Regions :
                        after.mpu[q] = IF \E b \in invalid : b <= q
                                       THEN before.mpu[q]
                                       ELSE RegionDescriptor(definition, q)
      ]_vars

\* C16 witness: an id whose earlier create had failed at a region has been
\* created again, successfully.
C16_Witness ==
    /\ created[1] < OS_PROCESSES
    /\ created[3] = E_OK
    /\ created[4]
    /\ os_processes[created[1]].definition = created[2]

\* ---------------------------------------------------- bootstrap: properties

\* C17: for a thread created with (stack_size, entrypoint, data), the stack
\* pointer os_boot_thread installs is the base of eight words inside the
\* thread's stack holding data in the r0 slot, os_thread_dispose in the lr slot,
\* entrypoint in the pc slot and 0x01000000 in the xpsr slot; the first
\* resumption runs entrypoint with data in r0, and when it returns v control is
\* in os_thread_dispose with v in r0.
C17_ThreadBootstrap ==
    LET stack_size == boot[2]
        entrypoint == boot[3]
        data == boot[4]
        base == BootSp(thread_sp)
    IN  /\ boot[1] # "none" =>
            /\ base >= 0 /\ base + EXCEPTION_FRAME_ENTRIES <= stack_size
            /\ thread_stack[base] = data
            /\ thread_stack[base + 5] = os_thread_dispose
            /\ thread_stack[base + 6] = entrypoint
            /\ thread_stack[base + 7] = XPSR_THUMB
        /\ boot[1] \in {"running", "returned"} => boot[5] = base
        /\ boot[1] = "running" =>
            /\ cpu.pc = entrypoint /\ cpu.r0 = data
            /\ cpu.lr = os_thread_dispose /\ cpu.xpsr = XPSR_THUMB
            /\ cpu.control = CONTROL_THREAD_UNPRIVILEGED
            /\ cpu.psp = stack_size
        /\ boot[1] = "returned" => (cpu.pc = os_thread_dispose /\ cpu.r0 = boot[6])

\* C17 witness: the thread of the scenario, created on 1024 words with data
\* 0xCAFEBABE, has returned 1 and is in os_thread_dispose with 1 in r0.
C17_Witness ==
    /\ boot[1] = "returned"
    /\ boot[2] = OS_STACK_SIZE
    /\ boot[4] = 0 - 889275714
    /\ boot[6] = 1
    /\ cpu.pc = os_thread_dispose
    /\ cpu.r0 = 1

\* ---------------------------------------------------- scheduler: properties

\* t is inside mutex_lock while a ready thread h has the mutex: h holds it, or
\* h has stored state 1 and has not yet recorded itself as owner.
WaitsFor(t, h) ==
    /\ op[t] = "lock" /\ pc[t] # "idle"
    /\ ready[h]
    /\ holds[h] \/ pc[h] = "lock_setowner"

\* C20 (as claimed): whatever the priorities, a thread inside mutex_lock while
\* a ready thread has the mutex eventually returns 0 from mutex_lock.
C20_LockProgress ==
    \A t \in Threads : \A h \in Threads \ {t} :
        WaitsFor(t, h) ~> (Completed(t, "lock") /\ ret[t] = 0)

=============================================================================
